---------------------------- MODULE Spec2Model ----------------------------
(***************************************************************************)
(* Model of ocsinventory.restapi.client.Client: the retrying GET override, *)
(* the endpoint accessors, the aggregation helpers and the static          *)
(* classification helpers.  One top-level method call is followed from its *)
(* invocation ("idle") to its return or its exception ("done"); the remote *)
(* server and the transport are the environment, which answers each        *)
(* transport attempt with a response, a ConnectionError or another error.  *)
(***************************************************************************)
EXTENDS Integers, Sequences, FiniteSets, TLC

VARIABLES
    op,         \* the Client method the caller invoked
    args,       \* its arguments
    pc,         \* "idle", the method blocked in self.get, or "done"
    i,          \* loop variable of Client.get (line 34)
    outcomes,   \* history: outcome of each transport attempt of the get in progress
    sleeps,     \* history: number of time.sleep(0.5) calls of the get in progress
    requests,   \* history: every self.get call issued, in order
    responses,  \* history: the response self.get returned for each request
    ids,        \* computers_by_*: the list list_computers_id() returned
    idx,        \* computers_by_*: position of the for loop in ids
    computers,  \* computers_by_*: the local list `computers`
    result,     \* what the method returned
    raised      \* the exception the method propagated to its caller

vars == <<op, args, pc, i, outcomes, sleeps, requests, responses, ids, idx,
          computers, result, raised>>

---------------------------------------------------------------------------
(* Bounds of the model. *)

\* longest array the list-IDs endpoint answers with
MaxIds == 2

(* Program constants. *)

\* mutants of RaiseIndex: the re-raise one iteration early, and on an index
\* the loop never reaches
RaiseIndexEarly == 2 - 1
RaiseIndexLate == 2 + 1

\* range(3): number of iterations of the retry loop
RetryRange == 3
\* the loop index at which the ConnectionError is re-raised
RaiseIndex == 2
\* the only status code is_response_valid accepts
StatusOK == 200

---------------------------------------------------------------------------
(* Texts are sequences of characters, so that Python's `in` on str is a    *)
(* real substring test.                                                    *)

\* the texts the caller searches for
SearchTexts == {<<>>, <<"a">>, <<"b">>, <<"a", "b">>}

\* s occurs in t as a contiguous run of characters
IsSubstring(s, t) ==
    \E k \in 0..(Len(t) - Len(s)) : SubSeq(t, k + 1, k + Len(s)) = s

(* JSON scalars as the json module decodes them. *)
JStr(s) == [kind |-> "str", str |-> s, num |-> 0]
JInt(n) == [kind |-> "int", str |-> <<>>, num |-> n]
JNull == [kind |-> "null", str |-> <<>>, num |-> 0]

(* Response bodies: text that json.loads accepts, or text it rejects. *)
Json(v) == [kind |-> "json", val |-> v]
Malformed == [kind |-> "malformed", val |-> <<>>]

Resp(code, body) == [status_code |-> code, text |-> body]
NoResponse == Resp(0, Malformed)

---------------------------------------------------------------------------
(* What the server may answer.                                             *)

ErrorResponses == {Resp(404, Malformed), Resp(500, Json(<<>>))}

ComputerIds == {1, 2}

\* an entry of the list-IDs array; the second is an entry without ID
IdEntry(n) == ("ID" :> n) @@ ("DEVICEID" :> 100 + n)
NoIdEntry == ("DEVICEID" :> 100)

ListEntries == {IdEntry(n) : n \in ComputerIds} \cup {NoIdEntry}

ListBodies ==
    {Json(b) : b \in UNION {[1..n -> ListEntries] : n \in 0..MaxIds}}
        \cup {Malformed}

ListResponses == {Resp(StatusOK, b) : b \in ListBodies} \cup ErrorResponses

\* accountinfo entries: without TAG, TAG null, TAG a string
NoTag == ("HARDWARE_ID" :> JInt(1))
TagEntry(v) == ("HARDWARE_ID" :> JInt(1)) @@ ("TAG" :> v)

AccountInfos ==
    { <<>>,
      <<NoTag>>,
      <<TagEntry(JNull)>>,
      <<TagEntry(JStr(<<"a", "b">>))>>,
      <<TagEntry(JStr(<<"b">>)), TagEntry(JStr(<<"a">>))>> }

\* software entries: fields may be absent, strings, numbers or null
SoftEntry(name, version) == ("NAME" :> name) @@ ("VERSION" :> version)
OnlyVersion(version) == ("VERSION" :> version)

Softwares ==
    { <<>>,
      <<SoftEntry(JStr(<<"a", "b">>), JStr(<<"b">>))>>,
      <<SoftEntry(JNull, JInt(2)), SoftEntry(JStr(<<"b", "a">>), JStr(<<"a">>))>>,
      <<OnlyVersion(JStr(<<"b">>)), SoftEntry(JStr(<<"a">>), JStr(<<"b">>))>> }

\* the nested structure under the record's single key; `softwares` is the
\* member the code reads with the key ""
Inners ==
    {[accountinfo |-> a, softwares |-> <<>>] : a \in AccountInfos}
        \cup {[accountinfo |-> <<>>, softwares |-> s] : s \in Softwares}

\* a ComputerRecord: a mapping with one key, the computer's id
Record(key, inner) == (key :> inner)

Records == {Record(k, n) : k \in ComputerIds, n \in Inners}

DetailResponses(id) ==
    {Resp(StatusOK, Json(Record(id, n))) : n \in Inners}
        \cup {Resp(StatusOK, Malformed)} \cup ErrorResponses

SearchResponses ==
    {Resp(StatusOK, Json(<<>>)), Resp(StatusOK, Malformed)} \cup ErrorResponses

SoftwareCriteria == {"NAME", "VERSION"}
ComputerCriteria == {"NAME", "OSNAME"}

---------------------------------------------------------------------------
(* Outcomes of a computation that may raise. *)

Ret(v) == [raises |-> "none", val |-> v]
Raise(t) == [raises |-> t, val |-> FALSE]

(* Exceptions as the caller sees them.  `id` tells two ConnectionError     *)
(* objects apart: it is the number of the transport attempt that raised.   *)
Err(t, n) ==
    [type |-> t, id |-> n, response |-> NoResponse, status_code |-> 0,
     message |-> ""]
NoError == Err("none", 0)

\* RuntimeError(response, status_code, message), lines 279-283
ApiError(response) ==
    [type |-> "RuntimeError", id |-> 0, response |-> response,
     status_code |-> response.status_code,
     message |-> "Error with OCS Inventory REST API."]

(* Return values, tagged with their Python type. *)
NoResult == [kind |-> "unset", val |-> 0]
PyNone == [kind |-> "None", val |-> 0]
Val(kind, v) == [kind |-> kind, val |-> v]

(* A self.get call: the path under base_url and the query parameters. *)
Req(path, id) ==
    [path |-> path, id |-> id, params |-> FALSE, start |-> 0, limit |-> 0,
     criteria |-> "", value |-> <<>>]

SearchReq(start, limit, search_criteria, search_value) ==
    [path |-> "/computers/search", id |-> 0, params |-> TRUE,
     start |-> start, limit |-> limit,
     criteria |-> search_criteria, value |-> search_value]

---------------------------------------------------------------------------
(* Static helpers (lines 204-283).                                         *)

\* [key for key in computer_details.keys()][0]
extract_computer_id(computer_details) ==
    CHOOSE key \in DOMAIN computer_details : TRUE

\* getattr(response, 'status_code') == 200
is_response_valid(response) == response.status_code = StatusOK

\* json.loads(response.text)
response_to_collection(response) ==
    IF response.text.kind = "json" THEN Ret(response.text.val)
    ELSE Raise("JSONDecodeError")

\* mutant of computer_has_tag: reads the last accountinfo entry
computer_has_tag_last(computer_details, search_tag) ==
    LET computer_id == extract_computer_id(computer_details)
        accountinfo == computer_details[computer_id].accountinfo
        last == Len(accountinfo)
    IN  IF Len(accountinfo) = 0 THEN Ret(FALSE)
        ELSE IF "TAG" \notin DOMAIN accountinfo[last] THEN Raise("KeyError")
        ELSE LET tags == accountinfo[last]["TAG"]
             IN  IF tags.kind # "str" THEN Raise("TypeError")
                 ELSE Ret(IsSubstring(search_tag, tags.str))

\* `search_tag in tags`, with tags = accountinfo[0]['TAG']
computer_has_tag(computer_details, search_tag) ==
    LET computer_id == extract_computer_id(computer_details)
        accountinfo == computer_details[computer_id].accountinfo
    IN  IF Len(accountinfo) = 0 THEN Ret(FALSE)
        ELSE IF "TAG" \notin DOMAIN accountinfo[1] THEN Raise("KeyError")
        ELSE LET tags == accountinfo[1]["TAG"]
             IN  IF tags.kind # "str" THEN Raise("TypeError")
                 ELSE Ret(IsSubstring(search_tag, tags.str))

\* the for loop of computer_has_software from entry k on: a missing key
\* raises KeyError, which `except TypeError` does not catch
RECURSIVE scan_softwares(_, _, _, _)
scan_softwares(softwares, k, software_criteria, software_value) ==
    IF k > Len(softwares) THEN Ret(FALSE)
    ELSE LET soft == softwares[k]
         IN  IF software_criteria \notin DOMAIN soft THEN Raise("KeyError")
             ELSE IF soft[software_criteria].kind # "str"
                  THEN scan_softwares(softwares, k + 1, software_criteria,
                                      software_value)
             ELSE IF IsSubstring(software_value, soft[software_criteria].str)
                  THEN Ret(TRUE)
             ELSE scan_softwares(softwares, k + 1, software_criteria,
                                 software_value)

computer_has_software(computer_details, software_criteria, software_value) ==
    LET computer_id == extract_computer_id(computer_details)
        softwares == computer_details[computer_id].softwares
    IN  IF Len(softwares) # 0
        THEN scan_softwares(softwares, 1, software_criteria, software_value)
        ELSE Ret(FALSE)

\* mutant of extract_ids: builds the list back to front
RECURSIVE extract_ids_reversed(_)
extract_ids_reversed(collection) ==
    IF Len(collection) = 0 THEN Ret(<<>>)
    ELSE IF "ID" \notin DOMAIN Head(collection) THEN Raise("KeyError")
    ELSE LET rest == extract_ids_reversed(Tail(collection))
         IN  IF rest.raises # "none" THEN rest
             ELSE Ret(rest.val \o <<Head(collection)["ID"]>>)

\* [computer_id['ID'] for computer_id in collection]
RECURSIVE extract_ids(_)
extract_ids(collection) ==
    IF Len(collection) = 0 THEN Ret(<<>>)
    ELSE IF "ID" \notin DOMAIN Head(collection) THEN Raise("KeyError")
    ELSE LET rest == extract_ids(Tail(collection))
         IN  IF rest.raises # "none" THEN rest
             ELSE Ret(<<Head(collection)["ID"]>> \o rest.val)

\* what a call site `self._raise_api_error()` raises: the static method
\* takes one positional parameter and the call sites pass none
raise_api_error_call(response) == Err("TypeError", 0)

\* mutant of search_in_all_request: the limit is one short of the count
search_in_all_request_short(count, search_criteria, search_value) ==
    SearchReq(0, count - 1, search_criteria, search_value)

\* get_computers_search(0, self.total_nb_computers(), criteria, value)
search_in_all_request(count, search_criteria, search_value) ==
    SearchReq(0, count, search_criteria, search_value)

---------------------------------------------------------------------------
Init ==
    /\ op = "none"
    /\ args = [tag |-> <<>>, criteria |-> "", value |-> <<>>, details |-> <<>>]
    /\ pc = "idle"
    /\ i = 0
    /\ outcomes = <<>>
    /\ sleeps = 0
    /\ requests = <<>>
    /\ responses = <<>>
    /\ ids = <<>>
    /\ idx = 0
    /\ computers = <<>>
    /\ result = NoResult
    /\ raised = NoError

\* self.get(url, ...) is entered: the loop starts at i = 0
StartGet(who, req) ==
    /\ pc' = who
    /\ requests' = Append(requests, req)
    /\ i' = 0
    /\ outcomes' = <<>>
    /\ sleeps' = 0

\* the method returns res to its caller
Return(res) ==
    /\ pc' = "done"
    /\ result' = res
    /\ raised' = NoError

\* the method propagates exception e to its caller
Propagate(e) ==
    /\ pc' = "done"
    /\ result' = NoResult
    /\ raised' = e

\* the locals of a get that returned to an accessor are gone
DropGetFrame == i' = 0 /\ outcomes' = <<>> /\ sleeps' = 0

InGet == pc \notin {"idle", "done"}

CurrentRequest == requests[Len(requests)]

Outcome(kind, response, error) ==
    [kind |-> kind, response |-> response, error |-> error]

\* the answers the server has for a request
TransportResponses(req) ==
    CASE req.path = "/computers/listID" -> ListResponses
      [] req.path = "/computer/" -> DetailResponses(req.id)
      [] OTHER -> SearchResponses

\* the answers the transport may give to the attempt in progress
Answers == IF InGet THEN TransportResponses(CurrentRequest) ELSE {}

---------------------------------------------------------------------------
(* The callers of self.get, resumed when it returns `response`.            *)

\* Client.get was called by the user: the response is the result
resume_get(response) ==
    /\ Return(Val("response", response))
    /\ outcomes' = Append(outcomes, Outcome("response", response, NoError))
    /\ UNCHANGED <<i, sleeps, requests, ids, idx, computers>>

\* total_nb_computers, lines 134-136; search_in_all_computers passes the
\* count on to get_computers_search, line 145
resume_total_nb_computers(response) ==
    LET decoded == response_to_collection(response)
    IN  IF decoded.raises # "none"
        THEN /\ Propagate(Err(decoded.raises, 0))
             /\ DropGetFrame
             /\ UNCHANGED <<requests, ids, idx, computers>>
        ELSE IF op = "total_nb_computers"
        THEN /\ Return(Val("int", Len(decoded.val)))
             /\ DropGetFrame
             /\ UNCHANGED <<requests, ids, idx, computers>>
        ELSE /\ StartGet("get_computers_search",
                         search_in_all_request(Len(decoded.val),
                                               args.criteria, args.value))
             /\ UNCHANGED <<result, raised, ids, idx, computers>>

\* get_computers_search returned: search_in_all_computers returns it
resume_search(response) ==
    /\ Return(Val("response", response))
    /\ DropGetFrame
    /\ UNCHANGED <<requests, ids, idx, computers>>

\* the for loop of computers_by_*: the next id, or `return computers`
next_iteration(list, k, found) ==
    IF k < Len(list)
    THEN /\ StartGet("get_computer_details", Req("/computer/", list[k + 1]))
         /\ ids' = list
         /\ idx' = k + 1
         /\ computers' = found
         /\ UNCHANGED <<result, raised>>
    ELSE /\ Return(Val("list", found))
         /\ DropGetFrame
         /\ ids' = list
         /\ computers' = found
         /\ UNCHANGED <<requests, idx>>

\* list_computers_id, lines 148-152, and the head of the for loops that
\* iterate over what it returns (lines 160-161, 193-194)
resume_list_computers_id(response) ==
    IF is_response_valid(response)
    THEN LET decoded == response_to_collection(response)
             extracted == IF decoded.raises # "none" THEN decoded
                          ELSE extract_ids(decoded.val)
         IN  IF extracted.raises # "none"
             THEN /\ Propagate(Err(extracted.raises, 0))
                  /\ DropGetFrame
                  /\ UNCHANGED <<requests, ids, idx, computers>>
             ELSE IF op = "list_computers_id"
             THEN /\ Return(Val("list", extracted.val))
                  /\ DropGetFrame
                  /\ UNCHANGED <<requests, ids, idx, computers>>
             ELSE next_iteration(extracted.val, 0, <<>>)
    ELSE /\ Propagate(raise_api_error_call(response))
         /\ DropGetFrame
         /\ UNCHANGED <<requests, ids, idx, computers>>

\* mutant of detail_invalid: an invalid response is skipped
detail_invalid_skip(response) == next_iteration(ids, idx, computers)

\* the else branch of the loop body, lines 167-168 and 200-201
detail_invalid(response) ==
    /\ Propagate(raise_api_error_call(response))
    /\ DropGetFrame
    /\ UNCHANGED <<requests, ids, idx, computers>>

\* the loop body of computers_by_tag (162-168) and computers_by_software
\* (195-201)
resume_computer_details(response) ==
    IF is_response_valid(response)
    THEN LET decoded == response_to_collection(response)
             match ==
                 IF decoded.raises # "none" THEN decoded
                 ELSE IF op = "computers_by_tag"
                 THEN computer_has_tag(decoded.val, args.tag)
                 ELSE computer_has_software(decoded.val, args.criteria,
                                            args.value)
         IN  IF match.raises # "none"
             THEN /\ Propagate(Err(match.raises, 0))
                  /\ DropGetFrame
                  /\ UNCHANGED <<requests, ids, idx, computers>>
             ELSE next_iteration(ids, idx,
                                 IF match.val
                                 THEN Append(computers, decoded.val)
                                 ELSE computers)
    ELSE detail_invalid(response)

Resume(response) ==
    CASE pc = "get" -> resume_get(response)
      [] pc = "get_computers_id" /\ op \in {"total_nb_computers",
                                            "search_in_all_computers"} ->
             resume_total_nb_computers(response)
      [] pc = "get_computers_id" /\ op \in {"list_computers_id",
                                            "computers_by_tag",
                                            "computers_by_software"} ->
             resume_list_computers_id(response)
      [] pc = "get_computer_details" -> resume_computer_details(response)
      [] pc = "get_computers_search" -> resume_search(response)

---------------------------------------------------------------------------
(* Client.get, lines 34-40: one action per transport attempt.              *)

\* mutant of get_return: a 5xx response is retried like a ConnectionError
get_return_retry_5xx(response) ==
    /\ InGet
    /\ response \in Answers
    /\ IF response.status_code >= 500 /\ i + 1 < RetryRange
       THEN /\ i' = i + 1
            /\ outcomes' = Append(outcomes, Outcome("response", response, NoError))
            /\ UNCHANGED <<pc, sleeps, requests, responses, ids, idx,
                           computers, result, raised>>
       ELSE /\ responses' = Append(responses, response)
            /\ Resume(response)
    /\ UNCHANGED <<op, args>>

\* line 36: super().get returned, and get returns its response
get_return(response) ==
    /\ InGet
    /\ response \in Answers
    /\ responses' = Append(responses, response)
    /\ Resume(response)
    /\ UNCHANGED <<op, args>>

\* lines 37-40: super().get raised ConnectionError; sleep, then re-raise on
\* the last index, else the next iteration; a loop that ran out returns None
get_except ==
    /\ InGet
    /\ LET e == Err("ConnectionError", Len(outcomes) + 1)
       IN  /\ outcomes' = Append(outcomes, Outcome("ConnectionError", NoResponse, e))
           /\ sleeps' = sleeps + 1
           /\ IF i = RaiseIndex
              THEN /\ Propagate(e)
                   /\ UNCHANGED i
              ELSE IF i + 1 < RetryRange
              THEN /\ i' = i + 1
                   /\ UNCHANGED <<pc, result, raised>>
              ELSE /\ IF pc = "get" THEN Return(PyNone)
                      ELSE Propagate(Err("AttributeError", 0))
                   /\ UNCHANGED i
    /\ UNCHANGED <<op, args, requests, responses, ids, idx, computers>>

\* super().get raised something that is no ConnectionError: not caught
get_other_exception ==
    /\ InGet
    /\ LET e == Err("OtherError", Len(outcomes) + 1)
       IN  /\ outcomes' = Append(outcomes, Outcome("OtherError", NoResponse, e))
           /\ Propagate(e)
    /\ UNCHANGED <<op, args, i, sleeps, requests, responses, ids, idx, computers>>

---------------------------------------------------------------------------
(* The caller invokes a method.                                            *)

\* the arguments of a call; the ones the method does not take stay empty
Args(tag, criteria, value, details) ==
    [tag |-> tag, criteria |-> criteria, value |-> value, details |-> details]

NoArgs == Args(<<>>, "", <<>>, <<>>)

GetUrls == {Req("/computers/listID", 0), Req("/computers/search", 0)}

Enter(name, a, who, req) ==
    /\ pc = "idle"
    /\ op' = name
    /\ args' = a
    /\ StartGet(who, req)
    /\ UNCHANGED <<responses, ids, idx, computers, result, raised>>

Call_get(req) == Enter("get", NoArgs, "get", req)

Call_total_nb_computers ==
    Enter("total_nb_computers", NoArgs, "get_computers_id",
          Req("/computers/listID", 0))

Call_search_in_all_computers(search_criteria, search_value) ==
    Enter("search_in_all_computers",
          Args(<<>>, search_criteria, search_value, <<>>),
          "get_computers_id", Req("/computers/listID", 0))

Call_list_computers_id ==
    Enter("list_computers_id", NoArgs, "get_computers_id",
          Req("/computers/listID", 0))

Call_computers_by_tag(tag) ==
    Enter("computers_by_tag", Args(tag, "", <<>>, <<>>),
          "get_computers_id", Req("/computers/listID", 0))

Call_computers_by_software(software_criteria, software_value) ==
    Enter("computers_by_software",
          Args(<<>>, software_criteria, software_value, <<>>),
          "get_computers_id", Req("/computers/listID", 0))

\* a static helper is called on a decoded record
CallStatic(name, a, out) ==
    /\ pc = "idle"
    /\ op' = name
    /\ args' = a
    /\ IF out.raises = "none" THEN Return(Val("bool", out.val))
       ELSE Propagate(Err(out.raises, 0))
    /\ UNCHANGED <<i, outcomes, sleeps, requests, responses, ids, idx,
                   computers>>

Call_computer_has_tag(details, tag) ==
    CallStatic("computer_has_tag", Args(tag, "", <<>>, details),
               computer_has_tag(details, tag))

Call_computer_has_software(details, software_criteria, software_value) ==
    CallStatic("computer_has_software",
               Args(<<>>, software_criteria, software_value, details),
               computer_has_software(details, software_criteria,
                                     software_value))

Next ==
    \/ \E req \in GetUrls : Call_get(req)
    \/ Call_total_nb_computers
    \/ \E c \in ComputerCriteria, v \in SearchTexts :
           Call_search_in_all_computers(c, v)
    \/ Call_list_computers_id
    \/ \E tag \in SearchTexts : Call_computers_by_tag(tag)
    \/ \E c \in SoftwareCriteria, v \in SearchTexts :
           Call_computers_by_software(c, v)
    \/ \E d \in Records, tag \in SearchTexts : Call_computer_has_tag(d, tag)
    \/ \E d \in Records, c \in SoftwareCriteria, v \in SearchTexts :
           Call_computer_has_software(d, c, v)
    \/ \E response \in Answers : get_return(response)
    \/ get_except
    \/ get_other_exception

Spec == Init /\ [][Next]_vars

\* every transport attempt ends: super().get returns or raises
FairSpec ==
    Spec /\ WF_vars(get_except \/ get_other_exception
                        \/ \E response \in Answers : get_return(response))

---------------------------------------------------------------------------
(* Vocabulary of the properties.                                           *)

Done == pc = "done"

Attempts == Len(outcomes)

AllConnectionErrors ==
    \A k \in 1..Attempts : outcomes[k].kind = "ConnectionError"

Returned(kind) == Done /\ raised = NoError /\ result.kind = kind

Failed == Done /\ raised # NoError /\ result = NoResult

IsListPath(req) == req.path = "/computers/listID" /\ ~req.params

\* the body is a JSON array whose entries all have an ID
IsIdArray(response) ==
    /\ response.text.kind = "json"
    /\ \A k \in 1..Len(response.text.val) :
           "ID" \in DOMAIN response.text.val[k]

ByFilter == op \in {"computers_by_tag", "computers_by_software"}

\* the detail responses received so far, in the order of their requests
DetailResponsesSeen ==
    [k \in 1..(Len(responses) - 1) |-> responses[k + 1]]

---------------------------------------------------------------------------
(* C1: a get whose attempts all fail with a connection failure makes       *)
(* exactly 3 attempts and then raises the failure of the 3rd attempt       *)
(* itself; a get whose 1st attempt fails and whose 2nd succeeds makes      *)
(* exactly 2 attempts, raises nothing and returns the 2nd attempt's        *)
(* response.                                                               *)
C1_RetryThenReraise ==
    /\ Attempts <= 3
    /\ (InGet /\ AllConnectionErrors) => Attempts < 3
    /\ (Done /\ Attempts >= 1 /\ AllConnectionErrors) =>
           /\ Attempts = 3
           /\ raised = outcomes[3].error
           /\ raised.type = "ConnectionError"
           /\ result = NoResult
    /\ (Attempts >= 2 /\ outcomes[1].kind = "ConnectionError"
                      /\ outcomes[2].kind = "response") =>
           /\ Attempts = 2
           /\ Returned("response")
           /\ result.val = outcomes[2].response

C1_Witness ==
    /\ op = "get" /\ Done
    /\ Attempts = 3 /\ AllConnectionErrors
    /\ raised = Err("ConnectionError", 3)

(* C2: only a connection failure is retried.  A transport attempt that   *)
(* yields a response, whatever its status code, is the last attempt of     *)
(* its get: the get returns that response and raises nothing, and each     *)
(* self.get call receives one response at most; an attempt that raises     *)
(* another error is the last one too.                                      *)
C2_NoRetryOnResponse ==
    /\ \A k \in 1..Attempts :
           /\ outcomes[k].kind = "response" =>
                  /\ k = Attempts
                  /\ Returned("response")
                  /\ result.val = outcomes[k].response
           /\ outcomes[k].kind = "OtherError" =>
                  /\ k = Attempts
                  /\ Failed
                  /\ raised = outcomes[k].error
    /\ Len(responses) <= Len(requests)
    /\ InGet => Len(responses) = Len(requests) - 1

C2_Witness ==
    /\ op = "get" /\ Returned("response")
    /\ Attempts = 1
    /\ result.val.status_code = 500

(* C3: when the list-IDs response has a status code other than 200,        *)
(* list_computers_id fails with the API error carrying that response, its  *)
(* status code and the fixed message.                                      *)
C3_ApiErrorOnInvalidList ==
    (op = "list_computers_id" /\ Done /\ Len(responses) = 1
        /\ responses[1].status_code # 200) =>
        /\ raised = ApiError(responses[1])
        /\ result = NoResult

\* some entry has the criterion field, a string, containing the value
SomeEntryMatches(softwares, criterion, value) ==
    \E k \in 1..Len(softwares) :
        /\ criterion \in DOMAIN softwares[k]
        /\ softwares[k][criterion].kind = "str"
        /\ IsSubstring(value, softwares[k][criterion].str)

(* C4: computer_has_software never raises because of one entry: an entry   *)
(* without the criterion field or with a non-string field is no match and  *)
(* the scan goes on, so the result is true iff some entry has the          *)
(* criterion field containing the value as a substring.                    *)
C4_HasSoftwareSkipsBadEntries ==
    (op = "computer_has_software" /\ Done) =>
        /\ Returned("bool")
        /\ LET details == args.details
               softwares == details[CHOOSE k \in DOMAIN details : TRUE].softwares
           IN  result.val <=>
                   SomeEntryMatches(softwares, args.criteria, args.value)

\* the record's accountinfo is non-empty and its first entry's TAG is a
\* string containing tag
TagMatches(details, tag) ==
    LET accountinfo == details[CHOOSE k \in DOMAIN details : TRUE].accountinfo
    IN  /\ Len(accountinfo) > 0
        /\ "TAG" \in DOMAIN accountinfo[1]
        /\ accountinfo[1]["TAG"].kind = "str"
        /\ IsSubstring(tag, accountinfo[1]["TAG"].str)

\* the record's accountinfo is empty or starts with an entry holding a TAG
\* string
HasTagString(details) ==
    LET accountinfo == details[CHOOSE k \in DOMAIN details : TRUE].accountinfo
    IN  Len(accountinfo) > 0 =>
            /\ "TAG" \in DOMAIN accountinfo[1]
            /\ accountinfo[1]["TAG"].kind = "str"

MatchesSearchedTag(details) == TagMatches(details, args.tag)

\* computers_by_tag ended, every request it issued was answered, and every
\* response had status 200 and the body its endpoint documents
ByTagAllValid ==
    /\ op = "computers_by_tag" /\ Done
    /\ Len(responses) >= 1
    /\ Len(responses) = Len(requests)
    /\ \A k \in 1..Len(responses) :
           /\ responses[k].status_code = 200
           /\ responses[k].text.kind = "json"
    /\ IsIdArray(responses[1])

ServedRecords ==
    [k \in 1..(Len(responses) - 1) |-> responses[k + 1].text.val]

ByTagExpected ==
    /\ Returned("list")
    /\ Len(responses) = Len(ids) + 1
    /\ result.val = SelectSeq(ServedRecords, MatchesSearchedTag)

C6_ListIdsInServerOrder ==
    (op = "list_computers_id" /\ Done /\ Len(responses) = 1
        /\ responses[1].status_code = 200 /\ IsIdArray(responses[1])) =>
        /\ Returned("list")
        /\ Len(result.val) = Len(responses[1].text.val)
        /\ \A k \in 1..Len(result.val) :
               result.val[k] = responses[1].text.val[k]["ID"]

C6_Witness ==
    /\ op = "list_computers_id" /\ Returned("list")
    /\ result.val = <<2, 1>>

(* C7: search_in_all_computers issues the list-IDs request first and the   *)
(* search request only after the list-IDs response is in; it issues one    *)
(* search request, with start = 0, limit = the number of entries of the    *)
(* id list just fetched, and criterion = value.                            *)
C7_SearchAfterCount ==
    op = "search_in_all_computers" =>
        /\ Len(requests) \in {1, 2}
        /\ IsListPath(requests[1])
        /\ Len(requests) = 2 =>
               /\ Len(responses) >= 1
               /\ responses[1].text.kind = "json"
               /\ requests[2].path = "/computers/search"
               /\ requests[2].params
               /\ requests[2].start = 0
               /\ requests[2].limit = Len(responses[1].text.val)
               /\ requests[2].criteria = args.criteria
               /\ requests[2].value = args.value
        /\ Returned("response") => Len(requests) = 2

C7_Witness ==
    /\ op = "search_in_all_computers" /\ Returned("response")
    /\ requests[2].limit = 2
    /\ requests[2].value = <<"a", "b">>

(* C8: a get sleeps only between attempts: a call that made k attempts     *)
(* slept k - 1 times, so there is no sleep after the 3rd failed attempt.   *)
C8_SleepsOnlyBetweenAttempts ==
    (Done /\ Attempts >= 1) => sleeps = Attempts - 1

(* C9: computers_by_tag and computers_by_software issue the detail         *)
(* requests one per id, in the order of the id list, each after the        *)
(* previous one was answered; the first detail response with a status      *)
(* other than 200 ends the call with an error: no later detail request,    *)
(* no list returned.                                                       *)
C9_SequentialAndFatal ==
    ByFilter =>
        /\ IsListPath(requests[1])
        /\ Len(requests) - 1 <= Len(ids)
        /\ \A k \in 2..Len(requests) :
               requests[k] = Req("/computer/", ids[k - 1])
        /\ InGet => Len(responses) = Len(requests) - 1
        /\ \A k \in 2..Len(responses) :
               responses[k].status_code # 200 =>
                   /\ Failed
                   /\ Len(requests) = k
        /\ (Returned("list") /\ Len(responses) >= 1
                /\ responses[1].status_code = 200) =>
               Len(requests) = Len(ids) + 1

\* the first computer matched, the second detail response is a 404
C9_Witness ==
    /\ op = "computers_by_software" /\ Failed
    /\ Len(ids) = 2 /\ Len(responses) = 3
    /\ Len(computers) = 1
    /\ responses[3].status_code = 404

\* between 1 and 3 attempts, and either the last attempt's response is
\* returned or a connection failure is raised; None is never returned
C10_Outcome ==
    /\ Attempts <= 3
    /\ InGet => Attempts < 3
    /\ result.kind # "None"
    /\ (op = "get" /\ Done
            /\ \A k \in 1..Attempts :
                   outcomes[k].kind \in {"response", "ConnectionError"}) =>
           /\ Attempts >= 1
           /\ \/ /\ Returned("response")
                 /\ outcomes[Attempts].kind = "response"
                 /\ result.val = outcomes[Attempts].response
              \/ /\ Failed
                 /\ raised.type = "ConnectionError"

(* C10: every get ends, after 1 to 3 transport attempts, either by         *)
(* returning the response of its last attempt or by raising a connection   *)
(* failure, and never by returning None.                                   *)
C10_GetTerminates ==
    /\ []C10_Outcome
    /\ (op = "get" /\ InGet) ~> Done

C10_Witness ==
    /\ op = "get" /\ Returned("response")
    /\ Attempts = 3
    /\ result.val.status_code = 200

===========================================================================
